---- MODULE Spec2Model ----
(***************************************************************************)
(* Model of the request orchestration core of ai_chat_mp:                  *)
(*   - the chat turn of ui.render_chat over the conversation store,        *)
(*   - SearchManager.search_with_fallback,                                 *)
(*   - LLMIntelligentRouter / IntelligentRouter and RoutingUsageTracker,   *)
(*   - the agentic loop of GoogleProvider.generate_response,               *)
(*   - the provider adapters' generate_response and                        *)
(*     generate_chat_response_with_providers as calls with a result,       *)
(*   - ContextRelevanceAnalyzer.get_optimal_context_window,                *)
(*   - the log calls of the shared RoutingUsageTracker by session threads. *)
(* Scores (0..10, one decimal) and confidences (0..1, two decimals) are    *)
(* integers scaled by 10 and by 100.                                       *)
(***************************************************************************)
EXTENDS Integers, Sequences, FiniteSets, TLC

VARIABLES
    store,        \* the conversation document in db.chats: messages, updated_at
    active_chat,  \* per session: ss.active_chat, the session's copy of the document
    pc,           \* per session: position of render_chat
    turn,         \* per session: the locals of the turn in progress (or last finished)
    outcome,      \* per session: how the last turn ended
    now,          \* the wall clock read by current_time()
    nextTurn,     \* number of prompts submitted so far
    committed,    \* turns whose update_one succeeded
    overlap,      \* pairs of turns that were in flight at the same time
    routed,       \* turns for which the router produced a decision
    answered,     \* turns whose provider call completed with a response object
    registry,     \* tools.tool_registry: _fns, _descriptions, _param_schemas
    sm,           \* the call of SearchManager.search_with_fallback in progress
    llm_model,    \* LLMIntelligentRouter.model: the decision model, or none without a key
    fallback_router,  \* LLMIntelligentRouter.fallback_router
    constructed,  \* the module-level LLMIntelligentRouter() has run
    tracker,      \* llm_intelligent_router.usage_tracker
    calls,        \* calls of make_routing_decision so far
    returned,     \* decisions those calls returned
    last,         \* the last call: utterance, LLM reply, how it ended, its decision
    gp,           \* the call of GoogleProvider.generate_response in progress
    ad,           \* the last call across the provider contract: its inputs and result
    cw,           \* the last call of get_optimal_context_window: its inputs and result
    th,           \* per session thread: its position in a usage_tracker log call
    completed,    \* log calls of the usage tracker that have returned
    nc,           \* the last call of _analyze_new_chat_suggestion: its inputs and result
    up            \* two calls of enhance_system_prompt at the same time: profiles and results

turnVars ==
    <<store, active_chat, pc, turn, outcome, now, nextTurn, committed, overlap, routed,
      answered>>

searchVars == <<registry, sm>>

routerVars == <<llm_model, fallback_router, constructed, tracker, calls, returned, last>>

otherThanTurn == <<searchVars, routerVars, gp, ad, cw, th, completed, nc, up>>

otherThanSearch == <<turnVars, routerVars, gp, ad, cw, th, completed, nc, up>>

otherThanRouter == <<turnVars, searchVars, gp, ad, cw, th, completed, nc, up>>

otherThanProvider == <<turnVars, searchVars, routerVars, ad, cw, th, completed, nc, up>>

otherThanAdapter == <<turnVars, searchVars, routerVars, gp, cw, th, completed, nc, up>>

otherThanContext == <<turnVars, searchVars, routerVars, gp, ad, th, completed, nc, up>>

\* what a log call of the usage tracker leaves alone
otherThanTracker ==
    <<turnVars, searchVars, llm_model, fallback_router, constructed, calls, returned, last,
      gp, ad, cw, nc, up>>

\* what a call of _analyze_new_chat_suggestion leaves alone
otherThanSuggestion == <<turnVars, searchVars, routerVars, gp, ad, cw, th, completed, up>>

\* what a call of enhance_system_prompt leaves alone
otherThanProfile == <<turnVars, searchVars, routerVars, gp, ad, cw, th, completed, nc>>

vars == <<turnVars, searchVars, routerVars, gp, ad, cw, th, completed, nc, up>>

None == "none"

(***************************************************************************)
(* Bounds                                                                  *)
(***************************************************************************)
MaxTurns == 2

MaxCalls == 2

MaxHistory == 14

MaxLogs == 6

Sessions == {"s1", "s2"}

\* quality scores (x10) a search may come back with
ScoreSamples == {0, 15, 20, 25, 30}

(***************************************************************************)
(* ui.render_chat                                                          *)
(***************************************************************************)
RetryThreshold == 30

AcceptThreshold == 20

NoRelevantResults == "No relevant search results found."

UserMessage(t, ts) == [role |-> "user", turn |-> t, timestamp |-> ts]

AssistantMessage(t, text, srt, ts) ==
    IF srt # None
    THEN [role |-> "assistant", turn |-> t, content |-> text, timestamp |-> ts,
          search_results |-> srt]
    ELSE [role |-> "assistant", turn |-> t, content |-> text, timestamp |-> ts]

\* line 157: the retry with the original query
NeedsRetry(score) == score < RetryThreshold

\* line 164
SearchResultsText(results, score) ==
    IF score > AcceptThreshold THEN results ELSE NoRelevantResults

\* what search_with_fallback hands back for a score: the best passage, "" if none
PassageOf(score) == IF score = 0 THEN "" ELSE "passage"

IdleTurn == [id |-> 0, before |-> <<>>, needs_search |-> FALSE, first_score |-> -1,
             score |-> -1, retried |-> FALSE, srt |-> None, resp |-> None,
             trace |-> <<>>, sent |-> <<>>]

\* the locals of a turn go out of scope when render_chat returns or raises
Finished(t) == [IdleTurn EXCEPT !.id = t.id]

InFlight(s) == pc[s] # "idle"

\* lines 132-142: the prompt is submitted, the user message appended, the router
\* asked; a router that raises ends the turn there
Submit(s) ==
    /\ pc[s] = "idle"
    /\ nextTurn < MaxTurns
    /\ \E ns \in BOOLEAN, router_raises \in BOOLEAN :
        /\ router_raises => ~ns
        /\ turn' = [turn EXCEPT ![s] =
                       IF router_raises
                       THEN [IdleTurn EXCEPT !.id = nextTurn + 1]
                       ELSE [IdleTurn EXCEPT !.id = nextTurn + 1,
                                             !.before = active_chat[s].messages,
                                             !.needs_search = ns,
                                             !.trace = <<"router">>]]
        /\ pc' = [pc EXCEPT ![s] = IF router_raises THEN "idle"
                                   ELSE IF ns THEN "search" ELSE "provider"]
        /\ outcome' = [outcome EXCEPT ![s] = IF router_raises THEN "aborted" ELSE "running"]
        /\ routed' = IF router_raises THEN routed ELSE routed \cup {nextTurn + 1}
        /\ overlap' = IF router_raises THEN overlap
                      ELSE overlap \cup {{nextTurn + 1, turn[o].id} :
                                             o \in {x \in Sessions \ {s} : InFlight(x)}}
    /\ active_chat' = [active_chat EXCEPT ![s].messages =
                          Append(@, UserMessage(nextTurn + 1, now + 1))]
    /\ now' = now + 1
    /\ nextTurn' = nextTurn + 1
    /\ UNCHANGED <<store, committed, answered>>
    /\ UNCHANGED otherThanTurn

\* lines 145-165: search with the optimized query, retry with the original one
DoSearch(s) ==
    /\ pc[s] = "search"
    /\ \E s1 \in ScoreSamples, s2 \in ScoreSamples :
        LET retry == NeedsRetry(s1)
            final == IF retry THEN s2 ELSE s1
        IN  /\ (~retry => s2 = s1)
            /\ turn' = [turn EXCEPT ![s].first_score = s1,
                                    ![s].score = final,
                                    ![s].retried = retry,
                                    ![s].srt = SearchResultsText(PassageOf(final), final),
                                    ![s].trace = Append(@, "search")]
    /\ pc' = [pc EXCEPT ![s] = "provider"]
    /\ UNCHANGED <<store, active_chat, outcome, now, nextTurn, committed, overlap, routed,
                   answered>>
    /\ UNCHANGED otherThanTurn

\* providers.py line 911: the provider is handed the session's whole message list
ProviderMessages(chat) == chat.messages

\* lines 167-203: the provider answers (an error response is a response) and the
\* assistant message is appended to the session's list
ProviderReturn(s) ==
    /\ pc[s] = "provider"
    /\ \E r \in {"answer", "provider_error"} :
        /\ turn' = [turn EXCEPT ![s].resp = r, ![s].first_score = -1, ![s].score = -1,
                                ![s].trace = Append(@, "provider"),
                                ![s].sent = ProviderMessages(active_chat[s])]
        /\ active_chat' = [active_chat EXCEPT ![s].messages =
                              Append(@, AssistantMessage(turn[s].id, r, turn[s].srt, now + 1))]
    /\ now' = now + 1
    /\ pc' = [pc EXCEPT ![s] = "persist"]
    /\ answered' = answered \cup {turn[s].id}
    /\ UNCHANGED <<store, outcome, nextTurn, committed, overlap, routed>>
    /\ UNCHANGED otherThanTurn

ProviderRaiseSwallowed(s) ==
    /\ pc[s] = "provider"
    /\ turn' = [turn EXCEPT ![s].resp = "provider_error", ![s].first_score = -1,
                            ![s].score = -1]
    /\ active_chat' = [active_chat EXCEPT ![s].messages =
                          Append(@, AssistantMessage(turn[s].id, "provider_error",
                                                     turn[s].srt, now + 1))]
    /\ now' = now + 1
    /\ pc' = [pc EXCEPT ![s] = "persist"]
    /\ UNCHANGED <<store, outcome, nextTurn, committed, overlap, routed, answered>>
    /\ UNCHANGED otherThanTurn

\* providers.py line 912: the model lookup is outside the try, a store failure there
\* ends the turn with the user message already in the session's list
ProviderRaise(s) ==
    /\ pc[s] = "provider"
    /\ pc' = [pc EXCEPT ![s] = "idle"]
    /\ outcome' = [outcome EXCEPT ![s] = "aborted"]
    /\ turn' = [turn EXCEPT ![s] = Finished(turn[s])]
    /\ UNCHANGED <<store, active_chat, now, nextTurn, committed, overlap, routed, answered>>
    /\ UNCHANGED otherThanTurn

PersistedStampKept(chat, ts) == [messages |-> chat.messages, updated_at |-> chat.updated_at]

\* lines 205-213: the $set document of update_one
PersistedDocument(chat, ts) == [messages |-> chat.messages, updated_at |-> ts]

\* lines 205-214: one $set of the whole list and of updated_at, then rerun
PersistOK(s) ==
    /\ pc[s] = "persist"
    /\ store' = PersistedDocument(active_chat[s], now + 1)
    /\ now' = now + 1
    /\ pc' = [pc EXCEPT ![s] = "idle"]
    /\ outcome' = [outcome EXCEPT ![s] = "committed"]
    /\ committed' = committed \cup {turn[s].id}
    /\ turn' = [turn EXCEPT ![s] = Finished(turn[s])]
    /\ UNCHANGED <<active_chat, nextTurn, overlap, routed, answered>>
    /\ UNCHANGED otherThanTurn

\* lines 205-213: update_one raises; the exception leaves render_chat and is shown
\* by main(), the session state keeps what was appended
PersistFail(s) ==
    /\ pc[s] = "persist"
    /\ pc' = [pc EXCEPT ![s] = "idle"]
    /\ outcome' = [outcome EXCEPT ![s] = "write_failed"]
    /\ turn' = [turn EXCEPT ![s] = Finished(turn[s])]
    /\ UNCHANGED <<store, active_chat, now, nextTurn, committed, overlap, routed, answered>>
    /\ UNCHANGED otherThanTurn

\* main.py handle_chat_selection: the session takes the stored document
LoadChat(s) ==
    /\ pc[s] = "idle"
    /\ active_chat[s] # store
    /\ active_chat' = [active_chat EXCEPT ![s] = store]
    /\ UNCHANGED <<store, pc, turn, outcome, now, nextTurn, committed, overlap, routed,
                   answered>>
    /\ UNCHANGED otherThanTurn

InitTurn ==
    /\ store = [messages |-> <<>>, updated_at |-> 0]
    /\ active_chat = [s \in Sessions |-> [messages |-> <<>>, updated_at |-> 0]]
    /\ pc = [s \in Sessions |-> "idle"]
    /\ turn = [s \in Sessions |-> IdleTurn]
    /\ outcome = [s \in Sessions |-> "none"]
    /\ now = 0
    /\ nextTurn = 0
    /\ committed = {}
    /\ overlap = {}
    /\ routed = {}
    /\ answered = {}

(***************************************************************************)
(* tools.ToolRegistry and the registrations of tools.py                    *)
(***************************************************************************)
BuiltinTools == {"enhance_user_query", "brave_search", "serper_search",
                 "get_weather_forecast", "get_pws_current_conditions",
                 "get_home_weather", "get_what3words_address", "debug_weather_tools"}

\* the registry after the module-level register_tool calls
InitialRegistry ==
    [_fns |-> [n \in BuiltinTools |-> n],
     _descriptions |-> [n \in BuiltinTools |-> n],
     _param_schemas |-> [n \in BuiltinTools \ {"brave_search", "serper_search"} |-> n]]

get_callable(name) ==
    IF name \in DOMAIN registry._fns THEN registry._fns[name] ELSE None

\* d[key] = value of a Python dict
SetItem(d, key, value) ==
    [k \in DOMAIN d \cup {key} |-> IF k = key THEN value ELSE d[k]]

\* names, callables, descriptions and schemas a caller registers
RegisteredNames == {"brave_search", "get_weather_forecast", "custom_tool"}

Callables(name) == {name, "replacement_fn"}

Descriptions(name) == {name, "replacement description"}

ParamSchemas(name) == {None, name, "replacement schema"}

\* ToolRegistry.register_tool(fn, name, description, params_schema)
register_tool(fn, name, description, params_schema) ==
    [_fns |-> SetItem(registry._fns, name, fn),
     _descriptions |-> SetItem(registry._descriptions, name, description),
     _param_schemas |-> IF params_schema # None
                        THEN SetItem(registry._param_schemas, name, params_schema)
                        ELSE registry._param_schemas]

\* a call of tool_registry.register_tool
RegisterTool ==
    \E name \in RegisteredNames :
        \E fn \in Callables(name), description \in Descriptions(name),
           params_schema \in ParamSchemas(name) :
            /\ registry' = register_tool(fn, name, description, params_schema)
            /\ UNCHANGED <<sm, otherThanSearch>>

(***************************************************************************)
(* search_manager.SearchManager                                            *)
(***************************************************************************)
max_attempts == 5

quality_threshold == 70

NeutralScore == 50

search_engines == <<"brave_search", "serper_search">>

\* what one call of an engine callable does
EngineOutcomes == {"raises", "api_error", "no_results", "passage"}

\* what the rating model answers (x10), or that the rating call fails
RatingSamples == {0, 30, 70}

RatingFails == -1

RatingInputs == RatingSamples \cup {RatingFails}

\* tools.py: the string an engine call returns
ResultText(engine, o) ==
    CASE o = "api_error"  -> IF engine = "brave_search" THEN "Brave API error 500: x"
                                                        ELSE "Serper API error 500: x"
      [] o = "no_results" -> "No results found."
      [] OTHER            -> "passage"

\* "no results" in result.lower()
MentionsNoResults(result) == result = "No results found."

assess_result_quality(result, rating) ==
    IF result = "" \/ MentionsNoResults(result) THEN 0
    ELSE IF rating = RatingFails THEN NeutralScore
    ELSE rating

IdleSearch == [pc |-> "idle", attempts |-> 0, best_result |-> "", best_score |-> 0,
               best_engine |-> "", log |-> <<>>]

LoopContinues_one_more(attempts, best_score) ==
    attempts <= max_attempts /\ best_score < quality_threshold

\* the while condition of line 52
LoopContinues(attempts, best_score) ==
    attempts < max_attempts /\ best_score < quality_threshold

\* lines 47-50: a call starts
SearchStart ==
    /\ sm.pc \in {"idle", "done"}
    /\ sm' = [IdleSearch EXCEPT !.pc = "loop"]
    /\ UNCHANGED <<registry, otherThanSearch>>

\* the state after one iteration found no callable, or the callable raised
Skipped(engine, o) ==
    [sm EXCEPT !.attempts = @ + 1,
               !.log = Append(@, [engine |-> engine, outcome |-> o, score |-> 0]),
               !.pc = IF LoopContinues(sm.attempts + 1, sm.best_score) THEN "loop" ELSE "done"]

Rated_keeping_the_last(engine, o, rating) ==
    LET result == ResultText(engine, o)
        score == assess_result_quality(result, rating)
        stop == score >= quality_threshold
    IN  [sm EXCEPT !.best_score = score,
                   !.best_result = result,
                   !.best_engine = engine,
                   !.attempts = IF stop THEN @ ELSE @ + 1,
                   !.log = Append(@, [engine |-> engine, outcome |-> o, score |-> score]),
                   !.pc = IF ~stop /\ LoopContinues(sm.attempts + 1, score)
                          THEN "loop" ELSE "done"]

\* lines 68-85: the callable returned, the result is rated and compared
Rated(engine, o, rating) ==
    LET result == ResultText(engine, o)
        score == assess_result_quality(result, rating)
        better == score > sm.best_score
        best == IF better THEN score ELSE sm.best_score
        stop == score >= quality_threshold
    IN  [sm EXCEPT !.best_score = best,
                   !.best_result = IF better THEN result ELSE @,
                   !.best_engine = IF better THEN engine ELSE @,
                   !.attempts = IF stop THEN @ ELSE @ + 1,
                   !.log = Append(@, [engine |-> engine, outcome |-> o, score |-> score]),
                   !.pc = IF ~stop /\ LoopContinues(sm.attempts + 1, best)
                          THEN "loop" ELSE "done"]

SearchAttempt_rotating_on_results ==
    /\ sm.pc = "loop"
    /\ LET rated == Cardinality({i \in 1..Len(sm.log) : sm.log[i].outcome # "raises"})
           engine == search_engines[(rated % Len(search_engines)) + 1]
       IN  IF get_callable(engine) = None
           THEN sm' = Skipped(engine, "missing")
           ELSE \E o \in EngineOutcomes, rating \in RatingInputs :
                   sm' = IF o = "raises" THEN Skipped(engine, o)
                                          ELSE Rated(engine, o, rating)
    /\ UNCHANGED <<registry, otherThanSearch>>

\* lines 52-85: one iteration of the loop
SearchAttempt ==
    /\ sm.pc = "loop"
    /\ LET engine == search_engines[(sm.attempts % Len(search_engines)) + 1]
       IN  IF get_callable(engine) = None
           THEN sm' = Skipped(engine, "missing")
           ELSE \E o \in EngineOutcomes, rating \in RatingInputs :
                   sm' = IF o = "raises" THEN Skipped(engine, o)
                                          ELSE Rated(engine, o, rating)
    /\ UNCHANGED <<registry, otherThanSearch>>

(***************************************************************************)
(* intelligent_router.IntelligentRouter (the rule-based router)            *)
(* An utterance is its sequence of lower-case words.                       *)
(***************************************************************************)
SampleQueries ==
    { <<>>,
      <<"weather", "in", "tokyo">>,
      <<"latest", "iphone", "news">>,
      <<"my", "pws">>,
      <<"when", "will", "it", "rain">>,
      <<"upcoming">>,
      <<"what", "is", "2+2">>,
      <<"who", "is", "in", "charge">> }

\* a regular expression \bA\b.*\bB\b as the chain of its word alternatives, and
\* a literal phrase as a chain of adjacent words
Ord(ts) == [k \in 1..Len(ts) |-> [toks |-> ts[k], adj |-> FALSE]]

Phr(ws) == [k \in 1..Len(ws) |-> [toks |-> {ws[k]}, adj |-> k > 1]]

RECURSIVE MatchFrom(_, _, _, _)
MatchFrom(ch, q, k, prev) ==
    IF k > Len(ch) THEN TRUE
    ELSE \E j \in (prev + 1)..Len(q) :
            /\ (ch[k].adj => j = prev + 1)
            /\ q[j] \in ch[k].toks
            /\ MatchFrom(ch, q, k + 1, j)

\* re.search(pattern, query_lower)
re_search(ch, q) == MatchFrom(ch, q, 1, 0)

\* words of the sample utterances that contain a keyword as a proper substring
ProperSubstrings == {<<"phone", "iphone">>}

\* keyword in query_lower
KeywordIn(kw, q) ==
    \E j \in 1..Len(q) : q[j] = kw \/ <<kw, q[j]>> \in ProperSubstrings

ToolOrder == <<"get_weather_forecast", "get_pws_current_conditions", "get_home_weather",
               "brave_search", "serper_search">>

PatternScore == 30

KeywordScore == 20

ConfidenceCap == 100

ThresholdHigh == 80

ThresholdMedium == 40

ThresholdLow == 20

SearchFirstConfidence == 70

ModelKnowledgeConfidence == 60

tool_patterns ==
    [get_weather_forecast |->
        [patterns |-> << Ord(<<{"weather"}, {"in"}>>),
                         Ord(<<{"forecast"}, {"for"}>>),
                         Ord(<<{"temperature"}, {"in"}>>),
                         Ord(<<{"rain", "snow", "sun"}, {"in"}>>),
                         Ord(<<{"how"}, {"hot"}, {"in"}>>),
                         Ord(<<{"climate"}, {"in"}>>) >>,
         keywords |-> <<"weather", "forecast", "temperature", "rain", "snow", "climate">>,
         location_indicators |-> <<"in", "at", "for">>,
         confidence_boost |-> 30],
     get_pws_current_conditions |->
        [patterns |-> << Ord(<<{"home", "my", "personal"}, {"weather", "temperature", "station"}>>),
                         Ord(<<{"PWS"}>>),
                         <<[toks |-> {"weather"}, adj |-> FALSE], [toks |-> {"station"}, adj |-> TRUE],
                           [toks |-> {"my", "home", "personal"}, adj |-> FALSE]>>,
                         Ord(<<{"current"}, {"home", "my"}, {"weather", "temp"}>>),
                         Ord(<<{"PWS"}, {"current", "conditions", "temperature", "weather"}>>) >>,
         keywords |-> <<"home", "my", "personal", "PWS", "station", "conditions">>,
         location_indicators |-> <<>>,
         confidence_boost |-> 50],
     get_home_weather |->
        [patterns |-> << Ord(<<{"home", "my", "personal"}, {"weather"}>>),
                         Ord(<<{"weather"}, {"home", "house"}>>),
                         Ord(<<{"my", "our"}, {"station", "tempest"}>>) >>,
         keywords |-> <<"home", "my", "personal", "house", "tempest">>,
         location_indicators |-> <<>>,
         confidence_boost |-> 40],
     brave_search |->
        [patterns |-> << Ord(<<{"latest", "recent", "current", "new"}, {"news", "events"}>>),
                         Ord(<<{"what"}, {"happened"}>>),
                         Phr(<<"stock", "price">>),
                         Ord(<<{"company"}, {"revenue", "earnings"}>>) >>,
         keywords |-> <<"latest", "recent", "current", "news", "stock", "company">>,
         location_indicators |-> <<>>,
         confidence_boost |-> 20],
     serper_search |->
        [patterns |-> << Ord(<<{"where"}, {"open"}>>),
                         Phr(<<"store", "hours">>),
                         Phr(<<"phone", "number">>),
                         Ord(<<{"address"}, {"of"}>>) >>,
         keywords |-> <<"hours", "address", "phone", "location", "store">>,
         location_indicators |-> <<>>,
         confidence_boost |-> 20]]

Min(a, b) == IF a < b THEN a ELSE b

\* f" {indicator} " in query_lower: the word stands between two other words
HasLocationIndicator(inds, q) ==
    \E k \in 1..Len(inds) : \E j \in 2..(Len(q) - 1) : q[j] = inds[k]

assess_tool_confidence_always_boosted(q, tool) ==
    LET cfg == tool_patterns[tool]
        pattern_matches ==
            Cardinality({k \in 1..Len(cfg.patterns) : re_search(cfg.patterns[k], q)})
        keyword_matches ==
            Cardinality({k \in 1..Len(cfg.keywords) : KeywordIn(cfg.keywords[k], q)})
        located == IF HasLocationIndicator(cfg.location_indicators, q)
                   THEN cfg.confidence_boost ELSE 0
    IN  Min(pattern_matches * PatternScore + keyword_matches * KeywordScore + located
              + cfg.confidence_boost,
            ConfidenceCap)

\* assess_tool_confidence: the confidence (x100) of one tool for an utterance
assess_tool_confidence(q, tool) ==
    LET cfg == tool_patterns[tool]
        pattern_matches ==
            Cardinality({k \in 1..Len(cfg.patterns) : re_search(cfg.patterns[k], q)})
        keyword_matches ==
            Cardinality({k \in 1..Len(cfg.keywords) : KeywordIn(cfg.keywords[k], q)})
        located == IF HasLocationIndicator(cfg.location_indicators, q)
                   THEN cfg.confidence_boost ELSE 0
        boost == IF pattern_matches > 0 \/ keyword_matches > 0
                 THEN cfg.confidence_boost ELSE 0
    IN  Min(pattern_matches * PatternScore + keyword_matches * KeywordScore + located + boost,
            ConfidenceCap)

\* assess_all_tools()[0]: the stable sort keeps the first tool among equals
BestTool(q) ==
    LET best == CHOOSE k \in 1..Len(ToolOrder) :
                  /\ \A j \in 1..Len(ToolOrder) :
                        assess_tool_confidence(q, ToolOrder[j]) <= assess_tool_confidence(q, ToolOrder[k])
                  /\ \A j \in 1..(k - 1) :
                        assess_tool_confidence(q, ToolOrder[j]) < assess_tool_confidence(q, ToolOrder[k])
    IN  [tool_name |-> ToolOrder[best],
         confidence |-> assess_tool_confidence(q, ToolOrder[best]),
         can_handle |-> assess_tool_confidence(q, ToolOrder[best]) >= ThresholdLow]

current_indicators ==
    { Ord(<<{"latest", "recent", "current", "today", "now"}>>),
      Phr(<<"this", "week">>), Phr(<<"this", "month">>),
      Phr(<<"stock", "price">>), Ord(<<{"market", "news", "events"}>>),
      Ord(<<{"what"}, {"happened"}>>), Ord(<<{"breaking", "update"}>>),
      Phr(<<"store", "hours">>), Phr(<<"phone", "number">>), Ord(<<{"address"}>>),
      Ord(<<{"open", "closed", "available"}, {"now", "today"}>>) }

future_indicators ==
    { Ord(<<{"when"}, {"will"}>>), Ord(<<{"upcoming", "scheduled", "next"}>>),
      Ord(<<{"forecast", "prediction", "estimate"}, {"next", "future"}>>) }

needs_external_search(q) ==
    \E ch \in current_indicators \cup future_indicators : re_search(ch, q)

Num(v) == [kind |-> "number", value |-> v]

RoutingDecision(route, tool, conf, reasoning, fallbacks) ==
    [route_type |-> route, primary_tool |-> tool, confidence |-> conf,
     reasoning |-> reasoning, fallback_options |-> fallbacks]

\* IntelligentRouter.make_routing_decision
RuleDecision(q) ==
    LET best == BestTool(q)
        search == needs_external_search(q)
    IN  IF best.confidence >= ThresholdHigh
        THEN RoutingDecision("tool_direct", best.tool_name, Num(best.confidence), "rules",
                             IF search THEN <<"search">> ELSE <<>>)
        ELSE IF best.confidence >= ThresholdMedium
        THEN IF search
             THEN RoutingDecision("tool_with_search", best.tool_name, Num(best.confidence),
                                  "rules", <<"search_verification">>)
             ELSE RoutingDecision("tool_direct", best.tool_name, Num(best.confidence),
                                  "rules", <<>>)
        ELSE IF search
        THEN RoutingDecision("search_first", None, Num(SearchFirstConfidence), "rules",
                             IF best.can_handle THEN <<best.tool_name>> ELSE <<>>)
        ELSE IF best.confidence >= ThresholdLow
        THEN RoutingDecision("tool_direct", best.tool_name, Num(best.confidence), "rules",
                             <<"search">>)
        ELSE RoutingDecision("model_knowledge", None, Num(ModelKnowledgeConfidence), "rules",
                             IF Len(q) > 3 THEN <<"search">> ELSE <<>>)


(***************************************************************************)
(* llm_intelligent_router: RoutingUsageTracker and LLMIntelligentRouter    *)
(***************************************************************************)
Missing == "missing"

NotANumber == [kind |-> "string", value |-> 0]

NoConfidence == [kind |-> "missing", value |-> 0]

\* what the decision model may send back: no reply at all (a raise, a timeout),
\* text that is no JSON, JSON that is no object, or an object
ReplyRoutes == {"tool_direct", "search_only", "banana", Missing}

ReplyTools == {None, "get_weather_forecast", "get_stock_price"}

ReplyProviders == {None, "brave"}

ReplyConfidences == {Num(90), Num(150), NotANumber, NoConfidence}

Reply(kind, r, t, p, c) ==
    [kind |-> kind, routing_decision |-> r, primary_tool |-> t, search_provider |-> p,
     confidence |-> c]

NoReply == Reply("none", Missing, None, None, NoConfidence)

Replies ==
    { Reply(k, Missing, None, None, NoConfidence) : k \in {"raises", "not_json", "json_non_object"} }
    \cup { Reply("object", r, t, p, c) :
             r \in ReplyRoutes, t \in ReplyTools, p \in ReplyProviders, c \in ReplyConfidences }

DefaultConfidence == 50

EmergencyConfidence == 30

\* lines 208-216: route_type_mapping.get(routing_decision, MODEL_KNOWLEDGE)
route_type_mapping(r) ==
    CASE r = "tool_direct"      -> "tool_direct"
      [] r = "tool_with_search" -> "tool_with_search"
      [] r = "search_only"      -> "search_first"
      [] r = "model_knowledge"  -> "model_knowledge"
      [] r = "combined"         -> "combined"
      [] OTHER                  -> "model_knowledge"

\* make_llm_routing_decision returns a decision (and not None)
LLMDecides(reply) == llm_model # None /\ reply.kind = "object"

\* lines 199-229: the decision built from the parsed object
LLMDecision(reply) ==
    RoutingDecision(route_type_mapping(reply.routing_decision),
                    reply.primary_tool,
                    IF reply.confidence = NoConfidence THEN Num(DefaultConfidence)
                                                       ELSE reply.confidence,
                    "LLM", <<>>)

EmergencyDecision ==
    RoutingDecision("model_knowledge", None, Num(EmergencyConfidence), "EMERGENCY", <<>>)

\* IntelligentRouter(): the rule-based router, as what its make_routing_decision
\* answers to each sample utterance
IntelligentRouter == [q \in SampleQueries |-> RuleDecision(q)]

NoRouter == [q \in {} |-> None]

\* make_fallback_routing_decision
make_fallback_routing_decision(q) ==
    IF fallback_router # NoRouter
    THEN [fallback_router[q] EXCEPT !.reasoning = "FALLBACK"]
    ELSE EmergencyDecision

\* f"{decision.confidence:.2f}" formats numbers only
Formats(conf) == conf.kind = "number"

\* log_llm_success, lines 34-35: the counters move before the log line is built
log_llm_success(t) ==
    [t EXCEPT !.llm_success_count = @ + 1, !.total_requests = @ + 1]

BackupReason == "LLM routing failed"

\* log_backup_usage, lines 40-43
log_backup_usage(t, reason, when) ==
    [t EXCEPT !.backup_usage_count = @ + 1, !.total_requests = @ + 1,
              !.last_backup_time = when, !.backup_reasons = Append(@, reason)]

NoDecision == RoutingDecision(None, None, Num(0), None, <<>>)

\* LLMIntelligentRouter.make_routing_decision, one call
MakeRoutingDecision ==
    /\ calls < MaxCalls
    /\ calls' = calls + 1
    /\ constructed
    /\ \E q \in SampleQueries, reply \in (IF llm_model = None THEN {NoReply} ELSE Replies) :
        IF LLMDecides(reply)
        THEN LET d == LLMDecision(reply)
                 ok == Formats(d.confidence)
             IN  /\ tracker' = log_llm_success(tracker)
                 /\ returned' = IF ok THEN returned + 1 ELSE returned
                 /\ last' = [query |-> q, reply |-> reply,
                             status |-> IF ok THEN "returned" ELSE "raised",
                             decision |-> IF ok THEN d ELSE NoDecision]
        ELSE LET d == make_fallback_routing_decision(q)
                 ok == Formats(d.confidence)
             IN  /\ tracker' = log_backup_usage(tracker, BackupReason, calls + 1)
                 /\ returned' = IF ok THEN returned + 1 ELSE returned
                 /\ last' = [query |-> q, reply |-> reply,
                             status |-> IF ok THEN "returned" ELSE "raised",
                             decision |-> IF ok THEN d ELSE NoDecision]
    /\ UNCHANGED <<llm_model, fallback_router, constructed, otherThanRouter>>

\* LLMIntelligentRouter.__init__: the decision model if there is an API key, and
\* the rule-based router unless its construction raises
ConstructRouter ==
    /\ ~constructed
    /\ constructed' = TRUE
    /\ \E api_key \in BOOLEAN : llm_model' = IF api_key THEN "gemini" ELSE None
    /\ \E imported \in BOOLEAN :
        fallback_router' = IF imported THEN IntelligentRouter ELSE NoRouter
    /\ UNCHANGED <<tracker, calls, returned, last, otherThanRouter>>

InitRouter ==
    /\ constructed = FALSE
    /\ llm_model = None
    /\ fallback_router = NoRouter
    /\ tracker = [llm_success_count |-> 0, backup_usage_count |-> 0, total_requests |-> 0,
                  last_backup_time |-> 0, backup_reasons |-> <<>>]
    /\ calls = 0
    /\ returned = 0
    /\ last = [query |-> <<>>, reply |-> NoReply, status |-> "none", decision |-> NoDecision]

(***************************************************************************)
(* llm_intelligent_router.usage_tracker shared by the session threads: a   *)
(* statement self.x += 1 is a read of the attribute followed by a write    *)
(***************************************************************************)
IdleThread == [pc |-> "idle", kind |-> "none", tmp |-> 0]

\* the counter a log call increments first: line 34, or line 40
CounterOf(kind) == IF kind = "llm" THEN "llm_success_count" ELSE "backup_usage_count"

Started == Cardinality({s \in Sessions : th[s].pc # "idle"}) + completed

\* make_routing_decision reaches line 268 (log_llm_success) or line 274
\* (log_backup_usage) in the thread of session s
LogBegin(s) ==
    /\ th[s].pc = "idle"
    /\ Started < MaxLogs
    /\ \E kind \in {"llm", "backup"} :
        th' = [th EXCEPT ![s] = [pc |-> "read_count", kind |-> kind, tmp |-> 0]]
    /\ UNCHANGED <<tracker, completed, otherThanTracker>>

\* lines 34 and 40, the read of self.llm_success_count / self.backup_usage_count
ReadCount(s) ==
    /\ th[s].pc = "read_count"
    /\ th' = [th EXCEPT ![s].pc = "write_count", ![s].tmp = tracker[CounterOf(th[s].kind)]]
    /\ UNCHANGED <<tracker, completed, otherThanTracker>>

\* lines 34 and 40, the write
WriteCount(s) ==
    /\ th[s].pc = "write_count"
    /\ tracker' = [tracker EXCEPT ![CounterOf(th[s].kind)] = th[s].tmp + 1]
    /\ th' = [th EXCEPT ![s].pc = "read_total"]
    /\ UNCHANGED <<completed, otherThanTracker>>

\* lines 35 and 41, the read of self.total_requests
ReadTotal(s) ==
    /\ th[s].pc = "read_total"
    /\ th' = [th EXCEPT ![s].pc = "write_total", ![s].tmp = tracker.total_requests]
    /\ UNCHANGED <<tracker, completed, otherThanTracker>>

\* lines 35 and 41, the write; then lines 42-43 of log_backup_usage and the return
WriteTotal(s) ==
    /\ th[s].pc = "write_total"
    /\ tracker' = IF th[s].kind = "backup"
                  THEN [tracker EXCEPT !.total_requests = th[s].tmp + 1,
                                       !.last_backup_time = completed + 1,
                                       !.backup_reasons = Append(@, BackupReason)]
                  ELSE [tracker EXCEPT !.total_requests = th[s].tmp + 1]
    /\ th' = [th EXCEPT ![s] = IdleThread]
    /\ completed' = completed + 1
    /\ UNCHANGED otherThanTracker

InitTracker ==
    /\ th = [s \in Sessions |-> IdleThread]
    /\ completed = 0

(***************************************************************************)
(* utils.estimate_tokens and providers.GoogleProvider.generate_response    *)
(***************************************************************************)
CharsPerToken == 4

Max(a, b) == IF a > b THEN a ELSE b

\* int(round(n / 4)): Python rounds a half to the even neighbour
RoundedQuarter(n) ==
    LET q == n \div CharsPerToken
        r == n % CharsPerToken
    IN  IF 2 * r < CharsPerToken THEN q
        ELSE IF 2 * r > CharsPerToken THEN q + 1
        ELSE IF q % 2 = 0 THEN q ELSE q + 1

\* utils.estimate_tokens, for a text without runs of blanks
estimate_tokens(text) ==
    IF text = "" THEN 0 ELSE Max(1, RoundedQuarter(Len(text)))

AgenticIterations == 3

FallbackText == "I couldn't complete the request with the available tools."

ErrorText == "Sorry, I encountered an error while generating a response."

EstimatedFields == {"input_tokens", "output_tokens"}

\* the current user message, the search passage handed in, the text of a model turn
UserTexts == {"hi", "weather in tokyo"}

SearchTexts == {"", "passage"}

AnswerTexts == {"", "It is sunny."}

\* the tools a model turn may ask for
RequestedTools == {"get_weather_forecast", "get_stock_price"}

create_response_object(text, metrics) == [text |-> text, metrics |-> metrics]

Metrics(elapsed, input_tokens, text) ==
    [response_time |-> elapsed, input_tokens |-> input_tokens,
     output_tokens |-> estimate_tokens(text), estimated |-> EstimatedFields]

IdleProvider ==
    [pc |-> "idle", requests |-> 0, elapsed |-> 0, input_text |-> "", failed |-> FALSE,
     turns |-> <<>>, history |-> <<>>, invoked |-> <<>>,
     response |-> create_response_object("", [x \in {} |-> 0])]

\* the return statements of lines 149, 186 and 198
Returned(g, text) ==
    [g EXCEPT !.pc = "done",
              !.response = create_response_object(
                  text, Metrics(g.elapsed, estimate_tokens(g.input_text), text))]

\* lines 188-198: the handler of any exception raised after line 67
Failed(g) == Returned([g EXCEPT !.failed = TRUE], ErrorText)

\* lines 60-109: the input tokens are estimated, then the model object and the
\* history are built
GenerateStart ==
    /\ gp.pc \in {"idle", "done"}
    /\ \E u \in UserTexts, sr \in SearchTexts, setup_raises \in BOOLEAN :
        LET g == [IdleProvider EXCEPT !.pc = "loop", !.input_text = u \o sr]
        IN  gp' = IF setup_raises THEN Failed(g) ELSE g
    /\ UNCHANGED otherThanProvider

LoopOverrun(requests) == requests > AgenticIterations

\* the loop for _ in range(3) has run out
LoopExhausted(requests) == requests >= AgenticIterations

\* the end of an iteration that did not return: the next one, or lines 178-186
Continued(g) == IF LoopExhausted(g.requests) THEN Returned(g, FallbackText) ELSE g

\* the model request of an iteration, line 118
Requested(g, kind, content) ==
    [g EXCEPT !.requests = @ + 1, !.elapsed = @ + 1,
              !.turns = Append(@, [kind |-> kind, content |-> content])]

\* lines 132-149: a turn without a function call is the answer
TextTurn ==
    /\ gp.pc = "loop"
    /\ \E text \in AnswerTexts : gp' = Returned(Requested(gp, "text", text), text)
    /\ UNCHANGED otherThanProvider

ToolTurn_calling_the_unknown ==
    /\ gp.pc = "loop"
    /\ \E tool \in RequestedTools, tool_raises \in BOOLEAN :
        LET g == Requested(gp, "function_call", tool)
        IN  IF get_callable(tool) = None
            THEN /\ ~tool_raises
                 /\ gp' = Failed([g EXCEPT !.invoked = Append(@, tool)])
            ELSE IF tool_raises
            THEN gp' = Failed([g EXCEPT !.invoked = Append(@, tool), !.elapsed = @ + 1])
            ELSE gp' = Continued([g EXCEPT !.invoked = Append(@, tool), !.elapsed = @ + 1,
                                           !.history = Append(@, [role |-> "function",
                                                                  name |-> tool])])
    /\ UNCHANGED otherThanProvider

\* lines 151-176: a turn with a function call
ToolTurn ==
    /\ gp.pc = "loop"
    /\ \E tool \in RequestedTools, tool_raises \in BOOLEAN :
        LET g == Requested(gp, "function_call", tool)
        IN  IF get_callable(tool) = None
            THEN /\ ~tool_raises
                 /\ gp' = Continued([g EXCEPT !.history =
                                        Append(@, [role |-> "model", name |-> tool])])
            ELSE IF tool_raises
            THEN gp' = Failed([g EXCEPT !.invoked = Append(@, tool), !.elapsed = @ + 1])
            ELSE gp' = Continued([g EXCEPT !.invoked = Append(@, tool), !.elapsed = @ + 1,
                                           !.history = Append(@, [role |-> "function",
                                                                  name |-> tool])])
    /\ UNCHANGED otherThanProvider

\* lines 118-120: the request raises or brings no candidate
FailedTurn ==
    /\ gp.pc = "loop"
    /\ gp' = Failed(Requested(gp, "raises", ""))
    /\ UNCHANGED otherThanProvider

InitProvider == gp = IdleProvider

(***************************************************************************)
(* providers: the adapters' generate_response as one call with its result, *)
(* and generate_chat_response_with_providers                               *)
(***************************************************************************)
Adapters == {"google", "anthropic", "ollama", "grok", "openai"}

\* the adapters that read the usage block of the reply
UsageReporting == {"grok", "openai"}

\* the content of the last message: a string, or a list of content parts
ContentKinds == {"text", "parts"}

\* what the provider's endpoint does with the request
ProviderOutcomes ==
    {"ok", "timeout", "network", "status", "bad_json", "no_choices", "bad_shape"}

UsageKeys == {"prompt_tokens", "completion_tokens", "total_tokens"}

\* the counts a provider reports when it reports them
ReportedCount == [prompt_tokens |-> 11, completion_tokens |-> 7, total_tokens |-> 18]

\* response_data.get("usage", {}): any part of the usage block may be absent
UsageSamples == {[k \in K |-> ReportedCount[k]] : K \in SUBSET UsageKeys}

NoUsage == [k \in {} |-> 0]

ElapsedSamples == {1, 2}

\* create_response_object(text, None): metrics or {}
NoMetrics == [x \in {} |-> 0]

\* dict.get(key, default)
Get(d, key, default) == IF key \in DOMAIN d THEN d[key] ELSE default

CallReturns(response) == [kind |-> "returned", response |-> response]

\* the exception leaves the function
CallRaises == [kind |-> "raised", response |-> create_response_object("", NoMetrics)]

\* where a token count of the metrics came from
Origin(usage, key) == IF key \in DOMAIN usage THEN "provider" ELSE "estimator"

\* GrokProvider / OpenAIProvider: the texts of the early returns and handlers
HttpErrorText(ending, json_error_is_request_error) ==
    CASE ending = "timeout"    -> "Request timed out. Please try again."
      [] ending = "network"    -> "Network error: x"
      [] ending = "status"     -> "API Error: API error 500: x"
      [] ending = "no_choices" -> "No response from provider"
      [] ending = "bad_json"   -> IF json_error_is_request_error THEN "Network error: x"
                                                                  ELSE "Error: x"
      [] OTHER                  -> "Error: x"

\* GrokProvider.generate_response and OpenAIProvider.generate_response
HttpGenerateResponse(content, u, sr, ending, usage, text, elapsed, jre) ==
    IF content # "text"
    THEN CallReturns(create_response_object("Error: x", NoMetrics))
    ELSE IF ending # "ok"
    THEN CallReturns(create_response_object(HttpErrorText(ending, jre), NoMetrics))
    ELSE LET input_tokens == estimate_tokens(u \o sr)
             actual_input_tokens == Get(usage, "prompt_tokens", input_tokens)
             actual_output_tokens == Get(usage, "completion_tokens", estimate_tokens(text))
         IN  CallReturns(create_response_object(text,
                 [response_time |-> elapsed,
                  input_tokens |-> actual_input_tokens,
                  output_tokens |-> actual_output_tokens,
                  total_tokens |-> Get(usage, "total_tokens",
                                       actual_input_tokens + actual_output_tokens),
                  estimated |-> {}]))

\* OllamaProvider: the handlers of ConnectionError and Timeout have texts of their own
EstimatingErrorText(adapter, ending) ==
    IF adapter = "ollama" /\ ending = "network" THEN "Error: Could not connect to Ollama server"
    ELSE IF adapter = "ollama" /\ ending = "timeout" THEN "Error: Request timed out"
    ELSE ErrorText

\* GoogleProvider, AnthropicProvider and OllamaProvider: the handlers build their
\* metrics from input_tokens, which is unbound when lines 63-67 (241-245, 390-394)
\* raised
EstimatingGenerateResponse(adapter, content, u, sr, ending, text, elapsed) ==
    IF content # "text" THEN CallRaises
    ELSE LET input_tokens == estimate_tokens(u \o sr)
             final_text ==
                 IF ending = "ok" THEN text
                 ELSE IF adapter = "ollama" /\ ending \in {"no_choices", "bad_shape"}
                 THEN "No response received from Ollama"
                 ELSE EstimatingErrorText(adapter, ending)
         IN  CallReturns(create_response_object(final_text,
                             Metrics(elapsed, input_tokens, final_text)))

IdleAdapter ==
    [op |-> "none", adapter |-> "none", content |-> "text", outcome |-> "ok",
     usage |-> NoUsage, lookup |-> "found", has_messages |-> TRUE, has_key |-> TRUE,
     input_text |-> "", text |-> "", result |-> CallRaises]

\* one call of an adapter's generate_response
GenerateResponse ==
    /\ ad.op = "none"
    /\ \E adapter \in Adapters, content \in ContentKinds, u \in UserTexts, sr \in SearchTexts,
          ending \in ProviderOutcomes, usage \in UsageSamples, text \in AnswerTexts,
          elapsed \in ElapsedSamples, jre \in BOOLEAN :
        /\ adapter \notin UsageReporting => (usage = NoUsage /\ ~jre)
        /\ ad' = [IdleAdapter EXCEPT
                    !.op = "generate_response", !.adapter = adapter, !.content = content,
                    !.outcome = ending, !.usage = usage, !.input_text = u \o sr,
                    !.text = text,
                    !.result =
                        IF adapter \in UsageReporting
                        THEN HttpGenerateResponse(content, u, sr, ending, usage, text,
                                                  elapsed, jre)
                        ELSE EstimatingGenerateResponse(adapter, content, u, sr, ending,
                                                        text, elapsed)]
    /\ UNCHANGED otherThanAdapter

ReadyText == "I'm ready to chat! What can I help you with?"

NoModelText == "Error: Model configuration not found."

\* generate_chat_response_with_providers: the lookup of line 912 is outside the
\* try; the provider manager and the adapter are inside it
GenerateChatResponse ==
    /\ ad.op = "none"
    /\ \E lookup \in {"raises", "not_found", "found"}, has_messages \in BOOLEAN,
          has_key \in BOOLEAN, adapter \in Adapters, ending \in ProviderOutcomes,
          text \in AnswerTexts, u \in UserTexts :
        LET r == IF adapter \in UsageReporting
                 THEN HttpGenerateResponse("text", u, "", ending, NoUsage, text, 1, FALSE)
                 ELSE EstimatingGenerateResponse(adapter, "text", u, "", ending, text, 1)
        IN  ad' = [IdleAdapter EXCEPT
                     !.op = "generate_chat_response", !.adapter = adapter,
                     !.outcome = ending, !.lookup = lookup,
                     !.has_messages = has_messages, !.has_key = has_key,
                     !.input_text = u, !.text = text,
                     !.result =
                         IF lookup = "raises" THEN CallRaises
                         ELSE IF ~has_messages
                         THEN CallReturns(create_response_object(ReadyText, NoMetrics))
                         ELSE IF lookup = "not_found"
                         THEN CallReturns(create_response_object(NoModelText, NoMetrics))
                         ELSE IF ~has_key \/ r.kind = "raised"
                         THEN CallReturns(create_response_object(ErrorText, NoMetrics))
                         ELSE r]
    /\ UNCHANGED otherThanAdapter

InitAdapter == ad = IdleAdapter

(***************************************************************************)
(* context_analyzer.ContextRelevanceAnalyzer (relevances and confidences   *)
(* x100)                                                                   *)
(***************************************************************************)
TopicMinMessages == 4

TopicHeuristicMessages == 6

RelevanceMinMessages == 3

FullRelevance == 100

StandaloneRelevance == 20

ContextualRelevance == 80

InterruptionRelevance == 30

HighConfidence == 80

MediumConfidence == 60

RecentHigh == 8

RecentMedium == 12

FilterHigh == 30

FilterMedium == 20

AnalysisDefaultConfidence == 50

\* a stored relevance_score below both filters
LowRelevance == 10

\* the history handed in: n messages, those in low with a low relevance_score,
\* the others without one
History(n, low) ==
    [i \in 1..n |-> IF i \in low THEN [id |-> i, relevance_score |-> LowRelevance]
                                 ELSE [id |-> i]]

\* which messages carry a low relevance_score
LowSamples(n) == {{}, {2} \cap (1..n), {n - 2} \cap (1..n)}

\* what the decision model answers about the topic; "fails": no model, a raise,
\* or a reply that is no JSON
TopicReplies == {"yes", "no", "fails"}

\* what the decision model answers about the relevance, or that it fails
RelevanceFails == -1

RelevanceReplies == {10, 30, 150, RelevanceFails}

\* analysis_result.get("confidence", 0.5)
AnalysisConfidences == {NoConfidence, Num(50), Num(60), Num(70), Num(80), Num(90)}

\* messages[-k:]
LastK(seq, k) == SubSeq(seq, Max(1, Len(seq) - k + 1), Len(seq))

AllButLast_keeping_the_last(seq) == seq

\* messages[:-1]
AllButLast(seq) == SubSeq(seq, 1, Len(seq) - 1)

detect_topic_establishment(messages, reply) ==
    IF Len(messages) < TopicMinMessages THEN FALSE
    ELSE IF reply = "yes" THEN TRUE
    ELSE IF reply = "no" THEN FALSE
    ELSE Len(messages) > TopicHeuristicMessages

\* max(0.0, min(1.0, score))
Clamp(score) == Max(0, Min(FullRelevance, score))

calculate_conversation_relevance(pattern_standalone, chat_history, topic_reply, reply) ==
    IF Len(chat_history) < RelevanceMinMessages THEN FullRelevance
    ELSE IF ~detect_topic_establishment(chat_history, topic_reply) THEN FullRelevance
    ELSE IF reply # RelevanceFails THEN Clamp(reply)
    ELSE IF pattern_standalone THEN StandaloneRelevance ELSE ContextualRelevance

\* msg.get("relevance_score", 1.0) >= threshold
Relevant(msg, threshold) ==
    Get(msg, "relevance_score", FullRelevance) >= threshold

_filter_by_relevance(messages, threshold) ==
    SelectSeq(messages, LAMBDA msg : Relevant(msg, threshold))

get_optimal_context_window_inclusive(confidence, full_history, established, relevance) ==
    IF full_history = <<>> THEN <<>>
    ELSE LET current_question == full_history[Len(full_history)]
             conversation_history == AllButLast(full_history)
             conf == IF confidence = NoConfidence THEN AnalysisDefaultConfidence
                                                  ELSE confidence.value
         IN  IF ~established THEN <<current_question>>
             ELSE IF relevance < InterruptionRelevance THEN <<current_question>>
             ELSE IF conf >= HighConfidence
             THEN Append(_filter_by_relevance(LastK(conversation_history, RecentHigh),
                                              FilterHigh), current_question)
             ELSE IF conf >= MediumConfidence
             THEN Append(_filter_by_relevance(LastK(conversation_history, RecentMedium),
                                              FilterMedium), current_question)
             ELSE full_history

get_optimal_context_window(confidence, full_history, established, relevance) ==
    IF full_history = <<>> THEN <<>>
    ELSE LET current_question == full_history[Len(full_history)]
             conversation_history == AllButLast(full_history)
             conf == IF confidence = NoConfidence THEN AnalysisDefaultConfidence
                                                  ELSE confidence.value
         IN  IF ~established THEN <<current_question>>
             ELSE IF relevance < InterruptionRelevance THEN <<current_question>>
             ELSE IF conf > HighConfidence
             THEN Append(_filter_by_relevance(LastK(conversation_history, RecentHigh),
                                              FilterHigh), current_question)
             ELSE IF conf > MediumConfidence
             THEN Append(_filter_by_relevance(LastK(conversation_history, RecentMedium),
                                              FilterMedium), current_question)
             ELSE full_history

IdleContext ==
    [op |-> "none", full_history |-> <<>>, needs_full_context |-> TRUE,
     confidence |-> NoConfidence, topic_established |-> FALSE,
     relevance_score |-> FullRelevance, window |-> <<>>]

\* one call of get_optimal_context_window(analysis_result, full_history)
GetOptimalContextWindow ==
    /\ cw.op = "none"
    /\ \E n \in 0..MaxHistory, needs_full_context \in BOOLEAN,
          pattern_standalone \in BOOLEAN, confidence \in AnalysisConfidences,
          topic_reply \in TopicReplies, second_topic_reply \in TopicReplies,
          relevance_reply \in RelevanceReplies :
        \E low \in LowSamples(n) :
            LET full_history == History(n, low)
                conversation_history == AllButLast(full_history)
                established == detect_topic_establishment(conversation_history, topic_reply)
                relevance == calculate_conversation_relevance(
                                 pattern_standalone, conversation_history,
                                 second_topic_reply, relevance_reply)
            IN  cw' = [op |-> "get_optimal_context_window",
                       full_history |-> full_history,
                       needs_full_context |-> needs_full_context,
                       confidence |-> confidence,
                       topic_established |-> n > 0 /\ established,
                       relevance_score |-> relevance,
                       window |-> get_optimal_context_window(confidence, full_history,
                                                             established, relevance)]
    /\ UNCHANGED otherThanContext

InitContext == cw = IdleContext

(***************************************************************************)
(* context_analyzer.ContextRelevanceAnalyzer._analyze_new_chat_suggestion  *)
(***************************************************************************)
SuggestMinMessages == 4

SuggestConfidence == 60

InterruptionMessages == 8

InterruptionConfidence == 70

\* _analyze_new_chat_suggestion: ongoing is "a recent message before the last
\* holds a conversation indicator", topic_overlap "a word of the question is among the
\* last 10 topic keywords", interruption "the question matches one of the
\* standalone_interruption_patterns"
_analyze_new_chat_suggestion(n, needs_full_context, confidence, ongoing, topic_overlap, interruption) ==
    LET conf == IF confidence = NoConfidence THEN 0 ELSE confidence.value
    IN  IF n < SuggestMinMessages THEN FALSE
        ELSE IF needs_full_context THEN FALSE
        ELSE IF ongoing /\ conf > SuggestConfidence /\ ~topic_overlap THEN TRUE
        ELSE interruption /\ n > InterruptionMessages /\ conf > InterruptionConfidence

IdleSuggestion ==
    [op |-> "none", history |-> 0, needs_full_context |-> TRUE, confidence |-> NoConfidence,
     ongoing |-> FALSE, topic_overlap |-> FALSE, interruption |-> FALSE, suggest_new_chat |-> FALSE]

\* one call of _analyze_new_chat_suggestion(current_question, chat_history, analysis_result)
AnalyzeNewChatSuggestion ==
    /\ nc.op = "none"
    /\ \E n \in 0..MaxHistory, needs_full_context \in BOOLEAN,
          confidence \in AnalysisConfidences, ongoing \in BOOLEAN, topic_overlap \in BOOLEAN,
          interruption \in BOOLEAN :
        nc' = [op |-> "_analyze_new_chat_suggestion", history |-> n,
               needs_full_context |-> needs_full_context, confidence |-> confidence,
               ongoing |-> ongoing, topic_overlap |-> topic_overlap, interruption |-> interruption,
               suggest_new_chat |-> _analyze_new_chat_suggestion(
                                        n, needs_full_context, confidence, ongoing, topic_overlap,
                                        interruption)]
    /\ UNCHANGED otherThanSuggestion

InitSuggestion == nc = IdleSuggestion

(***************************************************************************)
(* user_profile.UserProfileManager.generate_system_context and             *)
(* prompt_enhancer.enhance_system_prompt                                   *)
(***************************************************************************)
Names == {"Drew", "Ana"}

Cities == {"", "Catonsville"}

States == {"", "Maryland"}

\* latitudes (x10000); 0.0 is a latitude that Python takes for false
Latitudes == {0, 392707}

HomeLongitude == -767351

W3Ws == {"", "boom.unable.habit"}

StationIds == {"", "12345"}

PrivacyKeys == {"share_location", "share_weather_station", "share_name"}

\* the privacy dict of a profile: every flag set, or no flag at all
Privacies == [PrivacyKeys -> BOOLEAN] \cup {[k \in {} |-> TRUE]}

Profiles ==
    [name : Names,
     home_address : [city : Cities, state : States],
     coordinates : [latitude : Latitudes, longitude : {HomeLongitude}, w3w : W3Ws],
     timezone : {"America/New_York"},
     weather_station : [provider : {"weatherflow"}, station_id : StationIds, enabled : BOOLEAN],
     preferences : [units : {"imperial"}],
     ai_context : [personality : {"helpful and professional"}],
     privacy : Privacies]

\* the parts of the context that a profile may leave out
NoHome == <<"", "">>

NoCoordinates == <<0, 0>>

NoStation == <<"", "">>

generate_system_context_sharing_w3w(profile, clock) ==
    LET share_name == Get(profile.privacy, "share_name", TRUE)
        share_location == Get(profile.privacy, "share_location", TRUE)
        share_weather_station == Get(profile.privacy, "share_weather_station", TRUE)
        home == profile.home_address
        coords == profile.coordinates
        weather == profile.weather_station
    IN  [assistant |-> IF ~share_name THEN "User" ELSE profile.name,
         home |-> IF share_location /\ home.city # "" /\ home.state # ""
                  THEN <<home.city, home.state>> ELSE NoHome,
         coordinates |-> IF share_location /\ coords.latitude # 0 /\ coords.longitude # 0
                         THEN <<coords.latitude, coords.longitude>> ELSE NoCoordinates,
         w3w |-> coords.w3w,
         timezone |-> profile.timezone,
         datetime |-> clock,
         station |-> IF share_weather_station /\ weather.enabled /\ weather.station_id # ""
                     THEN <<weather.provider, weather.station_id>> ELSE NoStation,
         units |-> profile.preferences.units,
         personality |-> profile.ai_context.personality]

\* generate_system_context, lines 100-162: the parts of the context block, with
\* the current date/time in the user's timezone as the clock gives it
generate_system_context(profile, clock) ==
    LET share_name == Get(profile.privacy, "share_name", TRUE)
        share_location == Get(profile.privacy, "share_location", TRUE)
        share_weather_station == Get(profile.privacy, "share_weather_station", TRUE)
        home == profile.home_address
        coords == profile.coordinates
        weather == profile.weather_station
    IN  [assistant |-> IF ~share_name THEN "User" ELSE profile.name,
         home |-> IF share_location /\ home.city # "" /\ home.state # ""
                  THEN <<home.city, home.state>> ELSE NoHome,
         coordinates |-> IF share_location /\ coords.latitude # 0 /\ coords.longitude # 0
                         THEN <<coords.latitude, coords.longitude>> ELSE NoCoordinates,
         w3w |-> IF share_location THEN coords.w3w ELSE "",
         timezone |-> profile.timezone,
         datetime |-> clock,
         station |-> IF share_weather_station /\ weather.enabled /\ weather.station_id # ""
                     THEN <<weather.provider, weather.station_id>> ELSE NoStation,
         units |-> profile.preferences.units,
         personality |-> profile.ai_context.personality]

OriginalPrompts == {"", "Be brief."}

Clocks == {1}

\* enhance_system_prompt, lines 9-53: the context block, the original prompt if
\* there is one, and the closing instructions; the original prompt alone when
\* the lookup of the profile raises (the context block always carries the
\* timezone, so the test of line 27 never holds)
enhance_system_prompt(profile, original_prompt, clock, lookup_raises) ==
    IF lookup_raises THEN <<original_prompt>>
    ELSE IF original_prompt # ""
    THEN <<generate_system_context(profile, clock), original_prompt, "Remember", "CRITICAL">>
    ELSE <<generate_system_context(profile, clock), "Be helpful", "CRITICAL">>

\* the profiles that differ from a profile in the fields of one group at most
SameButLocation(profile) ==
    {[profile EXCEPT !.home_address = h, !.coordinates = c] :
        h \in [city : Cities, state : States],
        c \in [latitude : Latitudes, longitude : {HomeLongitude}, w3w : W3Ws]}

SameButStation(profile) ==
    {[profile EXCEPT !.weather_station = w] :
        w \in [provider : {"weatherflow"}, station_id : StationIds, enabled : BOOLEAN]}

SameButName(profile) == {[profile EXCEPT !.name = n] : n \in Names}

Variations(profile, group) ==
    CASE group = "location" -> SameButLocation(profile)
      [] group = "station"  -> SameButStation(profile)
      [] OTHER              -> SameButName(profile)

DefaultProfile ==
    [name |-> "Drew",
     home_address |-> [city |-> "Catonsville", state |-> "Maryland"],
     coordinates |-> [latitude |-> 392707, longitude |-> HomeLongitude,
                      w3w |-> "boom.unable.habit"],
     timezone |-> "America/New_York",
     weather_station |-> [provider |-> "weatherflow", station_id |-> "", enabled |-> FALSE],
     preferences |-> [units |-> "imperial"],
     ai_context |-> [personality |-> "helpful and professional"],
     privacy |-> [k \in PrivacyKeys |-> TRUE]]

IdleProfile ==
    [op |-> "none", group |-> "none", first |-> DefaultProfile, second |-> DefaultProfile,
     first_prompt |-> <<"">>, second_prompt |-> <<"">>]

\* enhance_system_prompt for two stored profiles that differ in one group of
\* fields, with the same original prompt and at the same time
EnhanceSystemPrompt ==
    /\ up.op = "none"
    /\ \E profile \in Profiles, group \in {"location", "station", "name"},
          original_prompt \in OriginalPrompts, clock \in Clocks, lookup_raises \in BOOLEAN :
        \E other \in Variations(profile, group) :
            up' = [op |-> "enhance_system_prompt", group |-> group,
                   first |-> profile, second |-> other,
                   first_prompt |-> enhance_system_prompt(profile, original_prompt, clock,
                                                          lookup_raises),
                   second_prompt |-> enhance_system_prompt(other, original_prompt, clock,
                                                           lookup_raises)]
    /\ UNCHANGED otherThanProfile

InitProfile == up = IdleProfile

InitSearch ==
    /\ registry = InitialRegistry
    /\ sm = IdleSearch

Init == InitTurn /\ InitSearch /\ InitRouter /\ InitProvider /\ InitAdapter /\ InitContext /\ InitTracker /\ InitSuggestion /\ InitProfile

Next ==
    \E s \in Sessions :
        \/ Submit(s)
        \/ DoSearch(s)
        \/ ProviderReturn(s)
        \/ ProviderRaise(s)
        \/ PersistOK(s)
        \/ PersistFail(s)
        \/ LoadChat(s)

Spec == Init /\ [][Next]_vars

NextSearch == SearchStart \/ SearchAttempt

SearchSpec == Init /\ [][NextSearch]_vars

\* an iteration of the loop that has started ends: the engine calls carry a
\* timeout (tools.py:38, 69) and every failure of the iteration is caught
SearchFairSpec == SearchSpec /\ WF_vars(SearchAttempt)

NextRouter == ConstructRouter \/ MakeRoutingDecision

RouterSpec == Init /\ [][NextRouter]_vars

NextProvider == GenerateStart \/ TextTurn \/ ToolTurn \/ FailedTurn

ProviderSpec == Init /\ [][NextProvider]_vars

NextAdapter == GenerateResponse \/ GenerateChatResponse

AdapterSpec == Init /\ [][NextAdapter]_vars

NextContext == GetOptimalContextWindow

ContextSpec == Init /\ [][NextContext]_vars

NextProfile == EnhanceSystemPrompt

ProfileSpec == Init /\ [][NextProfile]_vars

NextSuggestion == AnalyzeNewChatSuggestion

SuggestionSpec == Init /\ [][NextSuggestion]_vars

NextRegistry == RegisterTool

RegistrySpec == Init /\ [][NextRegistry]_vars

NextTracker ==
    \E s \in Sessions :
        LogBegin(s) \/ ReadCount(s) \/ WriteCount(s) \/ ReadTotal(s) \/ WriteTotal(s)

TrackerSpec == Init /\ [][NextTracker]_vars

(***************************************************************************)
(* Claims about the turn                                                   *)
(***************************************************************************)
HasMessage(msgs, role, t) ==
    \E i \in 1..Len(msgs) : msgs[i].role = role /\ msgs[i].turn = t

NonDecreasing(msgs) ==
    \A i \in 1..Len(msgs) : \A j \in i..Len(msgs) : msgs[i].timestamp <= msgs[j].timestamp

C2_FailedWriteRetainsNothing ==
    \A s \in Sessions :
        outcome[s] = "write_failed" =>
            /\ ~HasMessage(store.messages, "assistant", turn[s].id)
            /\ ~HasMessage(active_chat[s].messages, "assistant", turn[s].id)

\* C3: two turns that were in flight at the same time and have both been written
\* are both in the stored list, in non-decreasing timestamp order.
C3_ConcurrentTurnsBothStored ==
    \A p \in overlap :
        p \subseteq committed =>
            /\ \A t \in p : HasMessage(store.messages, "user", t)
                             /\ HasMessage(store.messages, "assistant", t)
            /\ NonDecreasing(store.messages)

(***************************************************************************)
(* Claims about the search manager                                         *)
(***************************************************************************)
SearchReturn == <<sm.best_result, sm.best_score, sm.best_engine>>

AllAttemptsErrored ==
    /\ sm.log # <<>>
    /\ \A i \in 1..Len(sm.log) : sm.log[i].outcome \in {"missing", "raises", "api_error"}

\* C4: when every attempt of a call errored (no callable, a raise, or an error
\* string), search_with_fallback returns ("", 0.0, "").
C4_AllErrorsReturnEmpty ==
    (sm.pc = "done" /\ AllAttemptsErrored) => SearchReturn = <<"", 0, "">>

(***************************************************************************)
(* Claims about the router                                                 *)
(***************************************************************************)
CallEnded == last.status # "none"

DecisionReturned == last.status = "returned"

OnLLMPath == DecisionReturned /\ last.decision.reasoning = "LLM"

KnownRoutes == {"tool_direct", "tool_with_search", "search_only", "model_knowledge", "combined"}

\* a reply that is a JSON object with a known routing_decision and a confidence
\* that is a number in [0,1] (or no confidence at all)
WellFormedReply(reply) ==
    /\ reply.kind = "object"
    /\ reply.routing_decision \in KnownRoutes
    /\ \/ reply.confidence = NoConfidence
       \/ reply.confidence.kind = "number" /\ reply.confidence.value \in 0..ConfidenceCap

\* C5: every call records exactly one telemetry event, so that total_requests =
\* llm_success_count + backup_usage_count = the number of decisions returned; a
\* backup use carries the reason "LLM routing failed" and returns the rule-based
\* router's decision for the utterance.
C5_OneTelemetryEventPerDecision ==
    /\ tracker.total_requests = tracker.llm_success_count + tracker.backup_usage_count
    /\ tracker.total_requests = returned
    /\ (DecisionReturned /\ ~OnLLMPath /\ fallback_router # NoRouter) =>
          /\ tracker.backup_reasons # <<>>
          /\ tracker.backup_reasons[Len(tracker.backup_reasons)] = BackupReason
          /\ last.decision = [RuleDecision(last.query) EXCEPT !.reasoning = "FALLBACK"]

\* C6: a reply of the decision model that is not a well-formed routing decision
\* makes the call return the fallback decision: no LLM-path decision, no exception.
C6_MalformedReplyFallsBack ==
    (CallEnded /\ llm_model # None /\ ~WellFormedReply(last.reply)) =>
        (DecisionReturned /\ ~OnLLMPath)

\* C7: the primary_tool of every returned decision is none or a tool for which
\* the registry's get_callable returns a callable.
C7_PrimaryToolRegistered ==
    DecisionReturned =>
        \/ last.decision.primary_tool = None
        \/ get_callable(last.decision.primary_tool) # None

\* C8: every returned decision whose route kind is search_only (SEARCH_FIRST) or
\* tool_with_search carries a non-empty search engine field.
C8_SearchRoutesCarryEngine ==
    (DecisionReturned /\ last.decision.route_type \in {"search_first", "tool_with_search"}) =>
        /\ "search_provider" \in DOMAIN last.decision
        /\ last.decision.search_provider # None

EmptyUtterance == <<>>

\* C9 as stated: for the empty utterance the router returns model_knowledge with
\* confidence at most 0.5.
C9_EmptyUtteranceAtMostHalf ==
    (DecisionReturned /\ last.query = EmptyUtterance) =>
        /\ last.decision.route_type = "model_knowledge"
        /\ last.decision.confidence.value <= DefaultConfidence

\* C9 as amended: for the empty utterance a decision that does not come from the
\* decision model is model_knowledge without a tool, with the rule-based router's
\* confidence 0.6, or 0.3 when there is no rule-based router.
C9_EmptyUtteranceByRules ==
    (DecisionReturned /\ ~OnLLMPath /\ last.query = EmptyUtterance) =>
        /\ last.decision.route_type = "model_knowledge"
        /\ last.decision.primary_tool = None
        /\ last.decision.confidence =
              IF fallback_router # NoRouter THEN Num(ModelKnowledgeConfidence)
                                            ELSE Num(EmergencyConfidence)

\* the empty utterance has been routed by the rules after the decision model
\* sent text that is no JSON
C9_Witness ==
    /\ DecisionReturned
    /\ last.query = EmptyUtterance
    /\ last.reply.kind = "not_json"
    /\ last.decision.reasoning = "FALLBACK"
    /\ last.decision.confidence = Num(ModelKnowledgeConfidence)

(***************************************************************************)
(* Claims about the function-calling adapter                               *)
(***************************************************************************)
TextTurns == {k \in 1..Len(gp.turns) : gp.turns[k].kind = "text"}

C11_AdaptersNeverRaise ==
    ad.op # "none" => ad.result.kind = "returned"

ProviderFailed == ad.op = "generate_response" /\ ad.content = "text" /\ ad.outcome # "ok"

\* C12: every provider failure yields a response whose text is an error
\* message and whose metrics carry response_time, input_tokens and
\* output_tokens, all token counts flagged as estimated.
C12_FailureCarriesEstimatedMetrics ==
    ProviderFailed =>
        /\ ad.result.kind = "returned"
        /\ ad.result.response.text # ""
        /\ {"response_time", "input_tokens", "output_tokens", "estimated"}
              \subseteq DOMAIN ad.result.response.metrics
        /\ ad.result.response.metrics.estimated = {"input_tokens", "output_tokens"}

ProviderAnswered ==
    /\ ad.op = "generate_response" /\ ad.content = "text" /\ ad.outcome = "ok"
    /\ ad.adapter \in UsageReporting

\* C13: a token count is flagged in `estimated` exactly when it came from the
\* estimator and not from the usage block of the reply.
C13_EstimatedIffHeuristic ==
    ProviderAnswered =>
        /\ ("input_tokens" \in ad.result.response.metrics.estimated)
              <=> (Origin(ad.usage, "prompt_tokens") = "estimator")
        /\ ("output_tokens" \in ad.result.response.metrics.estimated)
              <=> (Origin(ad.usage, "completion_tokens") = "estimator")

(***************************************************************************)
(* Claims about the context analyzer                                       *)
(***************************************************************************)
WindowReturned == cw.op = "get_optimal_context_window"

CurrentQuestion == cw.full_history[Len(cw.full_history)]

\* C14: when no topic is established (every history of fewer than 4 messages
\* included) the window is the current question alone only if the question is
\* standalone, and otherwise the full history.
C14_NoTopicWindow ==
    (WindowReturned /\ ~cw.topic_established) =>
        cw.window = IF cw.full_history # <<>> /\ ~cw.needs_full_context
                    THEN <<CurrentQuestion>>
                    ELSE cw.full_history

(***************************************************************************)
(* Claims about the order of a turn                                        *)
(***************************************************************************)
ExpectedTrace(needs_search) ==
    IF needs_search THEN <<"router", "search", "context", "provider">>
                    ELSE <<"router", "context", "provider">>

\* the windows the context analyzer can select for a history
SelectableWindows(msgs) ==
    { get_optimal_context_window(
          c, msgs, detect_topic_establishment(AllButLast(msgs), tr),
          calculate_conversation_relevance(ps, AllButLast(msgs), tr, rr)) :
        c \in AnalysisConfidences, tr \in TopicReplies, ps \in BOOLEAN,
        rr \in RelevanceReplies }

\* C15: when the provider call of a turn has completed, the components were
\* invoked in the order router, search manager (if the route needs search),
\* context analyzer, provider, and the provider was handed the window the
\* context analyzer selected.
C15_ComponentsInOrder ==
    \A s \in Sessions :
        pc[s] = "persist" =>
            /\ turn[s].trace = ExpectedTrace(turn[s].needs_search)
            /\ turn[s].sent \in SelectableWindows(turn[s].sent)

AssistantTurns(msgs) == {msgs[i].turn : i \in {j \in 1..Len(msgs) : msgs[j].role = "assistant"}}

\* C16: every assistant message in the store belongs to a turn in which a
\* routing decision was produced and a provider call completed, and a turn that
\* is about to write has the router and the provider behind it, in that order.
C16_PersistedAfterRoutingAndProvider ==
    /\ AssistantTurns(store.messages) \subseteq (routed \cap answered)
    /\ \A s \in Sessions :
          pc[s] = "persist" =>
              /\ turn[s].id \in routed \cap answered
              /\ turn[s].trace[1] = "router"
              /\ turn[s].trace[Len(turn[s].trace)] = "provider"

\* an assistant message of a turn with a search is in the store, next to the
\* user message of a turn that ended when the router raised
C16_Witness ==
    /\ \E i \in 1..Len(store.messages) :
          /\ store.messages[i].role = "assistant"
          /\ "search_results" \in DOMAIN store.messages[i]
    /\ \E i \in 1..Len(store.messages) :
          /\ store.messages[i].role = "user"
          /\ store.messages[i].turn \notin routed

(***************************************************************************)
(* Claims about the shared usage counter                                   *)
(***************************************************************************)
NoLogInProgress == \A s \in Sessions : th[s].pc = "idle"

\* C17: with any interleaving of the sessions' log calls no increment is lost:
\* once n calls have completed (and none is in progress) total_requests = n and
\* llm_success_count + backup_usage_count = n.
C17_NoLostIncrement ==
    NoLogInProgress =>
        /\ tracker.total_requests = completed
        /\ tracker.llm_success_count + tracker.backup_usage_count = completed

(***************************************************************************)
(* Claims about the tool registry                                          *)
(***************************************************************************)
\* the entry of a registered name: its callable, description and schema
Entry(reg, name) ==
    [fn |-> reg._fns[name],
     description |-> reg._descriptions[name],
     schema |-> IF name \in DOMAIN reg._param_schemas
                THEN reg._param_schemas[name] ELSE None]

\* C18: a registration under a name the registry already holds is rejected: the
\* existing callable, description and schema of that name stay as they were
\* (register_tool has no replace flag, so no call carries one).
C18_ReRegistrationRejected ==
    [][\A name \in DOMAIN registry._fns : Entry(registry', name) = Entry(registry, name)]_vars

(***************************************************************************)
(* Claims about the rule-based router                                      *)
(***************************************************************************)
\* a decision of the rule-based router, as the LLM router hands it on
ByRules == DecisionReturned /\ last.decision.reasoning = "FALLBACK"

\* the route kind of the table for a best tool confidence c (x100) and a
\* needs-search flag s; the table's search_only is the route search_first
TableRoute(c, s) ==
    IF c >= 80 THEN "tool_direct"
    ELSE IF c >= 40 THEN (IF s THEN "tool_with_search" ELSE "tool_direct")
    ELSE IF s THEN "search_first"
    ELSE IF c >= 20 THEN "tool_direct"
    ELSE "model_knowledge"

CurrentEventsQuery == <<"latest", "iphone", "news">>

PlainKnowledgeQuery == <<"what", "is", "2+2">>

\* C19: the rule-based router's route kind is the table's function of the best
\* tool confidence and the needs-search flag, search and model_knowledge routes
\* name no primary tool, the low tier without search lists search as fallback,
\* and, as test_specific_scenarios expects, "Latest iPhone news" routes to search
\* without a primary tool and "What is 2+2?" routes to model_knowledge.
C19_RuleRouteTable ==
    ByRules =>
        LET c == BestTool(last.query).confidence
            s == needs_external_search(last.query)
            d == last.decision
        IN  /\ d.route_type = TableRoute(c, s)
            /\ d.route_type \in {"search_first", "model_knowledge"} => d.primary_tool = None
            /\ (c >= 20 /\ c < 40 /\ ~s) => d.fallback_options = <<"search">>
            /\ last.query = CurrentEventsQuery =>
                  d.route_type = "search_first" /\ d.primary_tool = None
            /\ last.query = PlainKnowledgeQuery =>
                  d.route_type = "model_knowledge" /\ d.primary_tool = None

(***************************************************************************)
(* Claims about the best passage of a search                               *)
(***************************************************************************)
\* the attempts of the call whose engine returned a string, which was rated
RatedAttempts == {i \in 1..Len(sm.log) : sm.log[i].outcome \notin {"missing", "raises"}}

\* the maximum score over the rated attempts
MaxScoreSeen ==
    IF RatedAttempts = {} THEN 0
    ELSE LET top == CHOOSE i \in RatedAttempts :
                        \A j \in RatedAttempts : sm.log[j].score <= sm.log[i].score
         IN  sm.log[top].score

\* attempt i achieved the returned score and the returned passage and engine are its own
ReturnedFrom(i) ==
    /\ sm.log[i].score = sm.best_score
    /\ ResultText(sm.log[i].engine, sm.log[i].outcome) = sm.best_result
    /\ sm.log[i].engine = sm.best_engine

\* C20 as stated: the returned score is the maximum score over the attempts of
\* the call, and the returned passage and engine are those of an attempt that
\* achieved it.
C20_BestPassageKept ==
    (sm.pc = "done" /\ RatedAttempts # {}) =>
        /\ sm.best_score = MaxScoreSeen
        /\ \E i \in RatedAttempts : ReturnedFrom(i)

\* C20 as amended: the returned score is the maximum score over the attempts;
\* when it is above 0 the passage and engine are those of the first attempt
\* that achieved it, and when no attempt scored above 0 the call returns
\* ("", 0, "") and no attempt's passage.
C20_BestPassageKeptAboveZero ==
    sm.pc = "done" =>
        /\ sm.best_score = MaxScoreSeen
        /\ IF MaxScoreSeen > 0
           THEN \E i \in RatedAttempts :
                   /\ ReturnedFrom(i)
                   /\ \A j \in RatedAttempts : j < i => sm.log[j].score < sm.log[i].score
           ELSE SearchReturn = <<"", 0, "">>

\* a call whose first attempt scored best and was followed by a weaker passage
C20_Witness ==
    /\ sm.pc = "done"
    /\ Len(sm.log) >= 2
    /\ sm.log[1].score = NeutralScore
    /\ sm.log[2].outcome = "passage" /\ sm.log[2].score = 30
    /\ sm.log[Len(sm.log)].score < NeutralScore
    /\ sm.best_score = NeutralScore
    /\ sm.best_engine = sm.log[1].engine

(***************************************************************************)
(* Claims about the attempts of a search                                   *)
(***************************************************************************)
\* the attempts so far, failed ones included, are at most max_attempts, and only
\* the last of them can have reached the quality threshold
AttemptsBounded ==
    /\ Len(sm.log) <= max_attempts
    /\ \A i \in 1..(Len(sm.log) - 1) : sm.log[i].score < quality_threshold
    /\ sm.pc = "loop" => sm.attempts = Len(sm.log) /\ sm.best_score < quality_threshold

\* C21: a call of search_with_fallback ends, after at most max_attempts (5)
\* attempts in which a failed attempt counts as one, and with no attempt after
\* one that scored at least the quality threshold (7.0).
C21_SearchTerminates ==
    /\ []AttemptsBounded
    /\ (sm.pc = "loop") ~> (sm.pc = "done")

\* a call that used all its attempts, the first of which raised
C21_Witness ==
    /\ sm.pc = "done"
    /\ Len(sm.log) = max_attempts
    /\ sm.log[1].outcome = "raises"
    /\ sm.log[max_attempts].outcome = "passage"
    /\ sm.best_score < quality_threshold

\* the engine of the k-th attempt, counting from 0
RotationEngine(k) == IF k % 2 = 0 THEN "brave_search" ELSE "serper_search"

\* C22: the k-th attempt of a call (from 0, failed attempts counted) uses
\* brave_search for even k and serper_search for odd k, so that an attempt that
\* errored is followed by an attempt with the other engine.
C22_FixedRotation ==
    /\ \A i \in 1..Len(sm.log) : sm.log[i].engine = RotationEngine(i - 1)
    /\ \A i \in 1..(Len(sm.log) - 1) :
          sm.log[i].outcome \in {"raises", "api_error"} => sm.log[i + 1].engine # sm.log[i].engine

\* brave_search raised, serper_search answered an error, brave_search was next
C22_Witness ==
    /\ Len(sm.log) >= 3
    /\ sm.log[1].outcome = "raises" /\ sm.log[1].engine = "brave_search"
    /\ sm.log[2].outcome = "api_error" /\ sm.log[2].engine = "serper_search"
    /\ sm.log[3].engine = "brave_search"

(***************************************************************************)
(* Claims about the search of a turn                                       *)
(***************************************************************************)
\* the search of session s is over and the provider is about to be called
Searched(s) == pc[s] = "provider" /\ turn[s].needs_search

\* C23: the search is retried with the original query exactly when the optimized
\* query scored below 3.0, and the provider is handed the final passage exactly
\* when its score is at least 2.0, and the no-relevant-results marker otherwise.
C23_RetryAndAcceptThresholds ==
    \A s \in Sessions :
        Searched(s) =>
            /\ turn[s].retried <=> turn[s].first_score < 30
            /\ turn[s].srt = IF turn[s].score >= 20 THEN PassageOf(turn[s].score)
                                                    ELSE NoRelevantResults

\* C24: the score carried forward after a retry is at least the score of the
\* optimized query, and a first result that met the acceptance threshold is not
\* replaced by the no-relevant-results marker.
C24_RetryNeverWorse ==
    \A s \in Sessions :
        Searched(s) =>
            /\ turn[s].score >= turn[s].first_score
            /\ turn[s].first_score >= 20 => turn[s].srt # NoRelevantResults

(***************************************************************************)
(* Claims about the window of an established topic                         *)
(***************************************************************************)
\* the confidence of the analysis, 0.5 when it carries none
TopicConfidence == IF cw.confidence = NoConfidence THEN 50 ELSE cw.confidence.value

\* the messages before the current question that are among the last k of them
\* and whose relevance is at least thr, in the order of the history
RecentRelevant(k, thr) ==
    LET prior == Len(cw.full_history) - 1
    IN  SelectSeq(SubSeq(cw.full_history, 1, prior),
                  LAMBDA m : /\ m.id > prior - k
                             /\ ("relevance_score" \in DOMAIN m => m.relevance_score >= thr))

C26_WindowIsSubsequence ==
    (WindowReturned /\ cw.full_history # <<>>) =>
        /\ Len(cw.window) \in 1..Len(cw.full_history)
        /\ \A i \in 1..Len(cw.window) :
              /\ cw.window[i].id \in 1..Len(cw.full_history)
              /\ cw.window[i] = cw.full_history[cw.window[i].id]
        /\ \A i \in 1..(Len(cw.window) - 1) : cw.window[i].id < cw.window[i + 1].id
        /\ cw.window[Len(cw.window)] = CurrentQuestion

\* a window that left out messages in the middle and at the start of the history
C26_Witness ==
    /\ WindowReturned /\ cw.topic_established
    /\ Len(cw.full_history) = 12
    /\ Len(cw.window) = 8
    /\ cw.window[1].id = 4
    /\ cw.window[8].id = 12

(***************************************************************************)
(* Claims about the new-chat suggestion                                    *)
(***************************************************************************)
SuggestionReturned == nc.op = "_analyze_new_chat_suggestion"

SuggestionConfidence == IF nc.confidence = NoConfidence THEN 0 ELSE nc.confidence.value

\* C27: suggest_new_chat is set exactly when the question is standalone and
\* either the history has at least 4 messages, confidence > 0.6, the conversation
\* is ongoing and there is no vocabulary overlap, or the question matches a
\* standalone-interruption pattern, the history has at least 8 messages and
\* confidence > 0.7.
C27_SuggestNewChat ==
    SuggestionReturned =>
        (nc.suggest_new_chat <=>
            /\ ~nc.needs_full_context
            /\ \/ /\ nc.history >= 4
                  /\ SuggestionConfidence > 60
                  /\ nc.ongoing
                  /\ ~nc.topic_overlap
               \/ /\ nc.interruption
                  /\ nc.history >= 8
                  /\ SuggestionConfidence > 70)

(***************************************************************************)
(* Claims about a request for an unknown tool                              *)
(***************************************************************************)
Registered == DOMAIN registry._fns

\* the model turns of the call that asked for a tool the registry does not hold
UnknownToolTurns ==
    {k \in 1..Len(gp.turns) :
        gp.turns[k].kind = "function_call" /\ gp.turns[k].content \notin Registered}

\* the unknown-tool notices in the history of the call
Notices == {i \in 1..Len(gp.history) : gp.history[i].role = "model"}

\* C28: a request for a tool that is not registered invokes no callable, adds
\* one unknown-tool notice to the history, counts as one of the 3 iterations,
\* and the loop goes on (to the next request, or to the fallback answer after
\* the third) instead of ending in an error.
C28_UnknownToolContinues ==
    /\ \A i \in 1..Len(gp.invoked) : gp.invoked[i] \in Registered
    /\ Cardinality(Notices) = Cardinality(UnknownToolTurns)
    /\ \A i \in Notices : gp.history[i].name \notin Registered
    /\ Len(gp.turns) <= 3
    /\ Len(gp.turns) \in UnknownToolTurns =>
          /\ ~gp.failed
          /\ IF Len(gp.turns) < 3 THEN gp.pc = "loop"
             ELSE gp.pc = "done" /\ gp.response.text = FallbackText

\* an unknown tool was requested, then the model answered
C28_Witness ==
    /\ gp.pc = "done"
    /\ Len(gp.turns) = 2
    /\ 1 \in UnknownToolTurns
    /\ gp.turns[2].kind = "text"
    /\ gp.invoked = <<>>
    /\ Cardinality(Notices) = 1
    /\ ~gp.failed

(***************************************************************************)
(* Claims about the stored fallback reasons                                *)
(***************************************************************************)
RingSize == 5

\* C29: the usage counter stores its fallback reasons in a ring of 5: after any
\* number of fallback decisions at most 5 reasons are stored.
C29_ReasonsBounded == Len(tracker.backup_reasons) <= RingSize

(***************************************************************************)
(* Claims about the privacy flags                                          *)
(***************************************************************************)
\* the two profiles of the call differ in the fields of the group only, and
\* the flag that covers the group is false in both
Hidden(group, flag) ==
    /\ up.op = "enhance_system_prompt"
    /\ up.group = group
    /\ flag \in DOMAIN up.first.privacy
    /\ ~up.first.privacy[flag]

\* C30: with share_location false the system context is the same for profiles
\* that differ in home address, coordinates or What3Words only; with
\* share_weather_station false for profiles that differ in station data only;
\* with share_name false for profiles that differ in name only.
C30_PrivacyFlagsHonored ==
    /\ Hidden("location", "share_location") => up.first_prompt = up.second_prompt
    /\ Hidden("station", "share_weather_station") => up.first_prompt = up.second_prompt
    /\ Hidden("name", "share_name") => up.first_prompt = up.second_prompt

\* two profiles with different home, coordinates and What3Words, location not
\* shared, name shared: the same enhanced prompt, which carries a context block
C30_Witness ==
    /\ Hidden("location", "share_location")
    /\ up.first.privacy["share_name"]
    /\ up.first.home_address.city # up.second.home_address.city
    /\ up.first.coordinates.latitude # up.second.coordinates.latitude
    /\ up.first.coordinates.w3w # "" /\ up.second.coordinates.w3w = ""
    /\ Len(up.first_prompt) = 4
    /\ up.first_prompt = up.second_prompt

====
